---- MODULE Spec2Model ----
(***************************************************************************)
(* Routing links of packages/trpc-utils: switchLink (switch-link.ts) and   *)
(* endpointRouterLink (endpoint-router-link.ts), with the chain executor   *)
(* createChain they hand the selected link list to.                        *)
(*                                                                         *)
(* Strings that the code cuts or searches (procedure paths, error          *)
(* messages) are sequences of pieces; a piece is a run of characters that  *)
(* the code never looks inside.  "." is always a piece of its own.         *)
(***************************************************************************)
EXTENDS Naturals, Sequences, FiniteSets, TLC

VARIABLES
  swCtor,     \* outcome of switchLink(opts): "unbuilt", "ok" or "threw"
  swOpts,     \* the opts switchLink was called with
  swThrown,   \* message of the Error thrown by switchLink(opts)
  swInst,     \* one entry per call of the returned link with a runtime
  swInitLog,  \* every call link(runtime) made by switchLink, in order
  swCalls     \* one entry per operation handed to an initialized switchLink

swVars == <<swCtor, swOpts, swThrown, swInst, swInitLog, swCalls>>

VARIABLES
  epCtor,        \* "unbuilt", or "ok" once endpointRouterLink(opts) returned
  epOpts,        \* the opts endpointRouterLink was called with
  epInst,        \* one entry per call of the returned link with a runtime
  epFactoryLog,  \* every call createLink(endpoint), in order
  epInitLog,     \* every call link(runtime) made by getInitializedLinks
  epCalls        \* one entry per operation handed to an initialized router

epVars == <<epCtor, epOpts, epInst, epFactoryLog, epInitLog, epCalls>>

VARIABLE
  probe          \* a path and the router name the endpoint router derives from it

vars == <<swVars, epVars, probe>>

(***************************************************************************)
(* Bounds                                                                  *)
(***************************************************************************)
MaxChain == 2   \* longest link list in a case or returned by a factory
MaxInst  == 2   \* times a router is handed a runtime object
MaxCalls == 2   \* operations handed to one router
MaxEmit  == 2   \* emission attempts of the terminating link of one call
MaxPath  == 4   \* pieces of a probed procedure path

(***************************************************************************)
(* The collaborators: links, runtime objects, operations                   *)
(***************************************************************************)
\* The links a configuration can name.  What a link's handler does with an
\* operation (delegate with props.next(props.op), or terminate the chain
\* with a result stream of its own) is decided when the handler runs.
BareLink == "l0"

ListLink(i) == <<"l1", "l2", "l3", "l4">>[i]

\* Every hand-over passes a runtime object of its own; the k-th value a
\* terminating link sends is the k-th of DataOrder.
RuntimeOrder == <<"rt1", "rt2", "rt3">>

DataOrder == <<"d1", "d2", "d3">>

RECURSIVE SeqsUpTo(_, _)
SeqsUpTo(S, n) ==
  IF n = 0 THEN {<<>>}
  ELSE LET shorter == SeqsUpTo(S, n - 1)
       IN  shorter \cup {Append(s, x) : s \in {t \in shorter : Len(t) = n - 1}, x \in S}

\* LinkOrLinks<TRouter>: a single link or an array of links.
LinkOrLinks ==
  {[isArray |-> FALSE, link |-> BareLink, items |-> <<>>]}
    \cup {[isArray |-> TRUE, link |-> "none", items |-> [i \in 1..n |-> ListLink(i)]] : n \in 0..MaxChain}

\* A normalizer that keeps the first link of a list only.
asArrayFirst(value) ==
  IF ~value.isArray THEN <<value.link>>
  ELSE IF Len(value.items) = 0 THEN <<>>
  ELSE <<value.items[1]>>

\* return Array.isArray(value) ? value : [value];
asArray(value) == IF value.isArray THEN value.items ELSE <<value.link>>

(***************************************************************************)
(* Result streams                                                          *)
(***************************************************************************)
NextEv(v)   == [type |-> "next", data |-> v, message |-> <<>>]
ErrorEv(m)  == [type |-> "error", data |-> "none", message |-> m]
CompleteEv  == [type |-> "complete", data |-> "none", message |-> <<>>]

IsTerminal(ev) == ev.type \in {"error", "complete"}

\* isDone of an observable: an error or a completion went through it.
IsDone(evs) == Len(evs) > 0 /\ IsTerminal(evs[Len(evs)])

\* observable(): next, error and complete of the wrapped observer are
\* passed on until the stream is done and ignored afterwards.
Observe(evs, ev) == IF IsDone(evs) THEN evs ELSE Append(evs, ev)

(***************************************************************************)
(* Operations                                                              *)
(***************************************************************************)
\* Operation: {id, type, path, input, context, signal}.  The paths are
\* "u.g", "b", "u.p.s.g", "x.g", "valueOf.g" and "u".
Ops ==
  { [id |-> 1, type |-> "query",    path |-> <<"u", ".", "g">>,                     context |-> "anon"],
    [id |-> 2, type |-> "mutation", path |-> <<"b">>,                               context |-> "admin"],
    [id |-> 3, type |-> "query",    path |-> <<"u", ".", "p", ".", "s", ".", "g">>, context |-> "admin"],
    [id |-> 4, type |-> "query",    path |-> <<"x", ".", "g">>,                     context |-> "anon"],
    [id |-> 5, type |-> "query",    path |-> <<"valueOf", ".", "g">>,               context |-> "anon"],
    [id |-> 6, type |-> "mutation", path |-> <<"u">>,                               context |-> "admin"] }

(***************************************************************************)
(* Strings as sequences of pieces                                          *)
(***************************************************************************)
\* Array.prototype.join of a list of one-piece strings.
RECURSIVE Join(_, _)
Join(keys, sep) ==
  IF Len(keys) = 0 THEN <<>>
  ELSE IF Len(keys) = 1 THEN <<keys[1]>>
  ELSE <<keys[1], sep>> \o Join(Tail(keys), sep)

\* String.prototype.includes: part occurs in whole as a contiguous run.
Contains(whole, part) ==
  \E i \in 0..Len(whole) :
    /\ i + Len(part) <= Len(whole)
    /\ \A j \in 1..Len(part) : whole[i + j] = part[j]

(***************************************************************************)
(* JavaScript objects and Maps                                             *)
(***************************************************************************)
\* An object literal or a Map is the sequence of its own entries in
\* insertion order; Object.keys and Map.prototype.keys list them in it.
ObjectKeys(entries) == [i \in 1..Len(entries) |-> entries[i].key]

HasKey(entries, k) == \E i \in 1..Len(entries) : entries[i].key = k

\* Map.prototype.get: found is FALSE where JavaScript yields undefined.
MapGet(entries, k) ==
  IF HasKey(entries, k)
  THEN [found |-> TRUE, value |-> (CHOOSE e \in {entries[i] : i \in 1..Len(entries)} : e.key = k).value]
  ELSE [found |-> FALSE, value |-> <<>>]

\* Map.prototype.set on a key the Map may already hold.
MapSet(entries, k, v) ==
  IF HasKey(entries, k)
  THEN [i \in 1..Len(entries) |-> IF entries[i].key = k THEN [key |-> k, value |-> v] ELSE entries[i]]
  ELSE Append(entries, [key |-> k, value |-> v])

(***************************************************************************)
(* createChain: the chain executor                                         *)
(***************************************************************************)
NoLinkMsg == <<"no further link in chain">>

\* execute(index): invoke the handler of links[index] with a forward bound
\* to execute(index + 1).  The set of the runs the handlers allow: handled
\* lists the handlers invoked, in order; live says that a link terminated
\* the chain and owns the stream; otherwise the last forward found no link.
RECURSIVE execute(_, _)
execute(links, index) ==
  IF index > Len(links)
  THEN {[handled |-> <<>>, live |-> FALSE, out |-> <<ErrorEv(NoLinkMsg)>>]}
  ELSE {[handled |-> <<links[index]>>, live |-> TRUE, out |-> <<>>]}
         \cup {[rest EXCEPT !.handled = <<links[index]>> \o @] : rest \in execute(links, index + 1)}

createChain(links) == execute(links, 1)

\* The cleanup counts of the elements a run started: none has run while a
\* link owns the stream; a run that ended in the error of the last forward
\* has torn itself down.
Started(run) == [p \in 1..Len(run.handled) |-> IF run.live THEN 0 ELSE 1]

\* The teardown of a chain's subscription: the cleanup of every element
\* that started is invoked.
Cleanup(call) ==
  [call EXCEPT !.cleaned = [p \in 1..Len(call.handled) |-> call.cleaned[p] + 1]]

\* unsubscribe() on the subscription of a chain: tears the chain down,
\* unless the chain is done or torn down already.
chainUnsubscribe(call) ==
  IF call.torn \/ IsDone(call.out) THEN call
  ELSE Cleanup([call EXCEPT !.torn = TRUE])

\* The stream of a chain hands an event of its terminating link on while it
\* is neither done nor torn down.
ChainPasses(call) == ~IsDone(call.out) /\ ~call.torn

(***************************************************************************)
(* switchLink                                                              *)
(***************************************************************************)
CaseKeys == {"a", "b"}

\* What a selector can return: a case key or a key no case has.
SelectorKeys == CaseKeys \cup {"zz"}

\* opts.cases: an object literal of at most one entry per key of CaseKeys,
\* written in the order of CaseKeyOrder.
CaseKeyOrder == <<"a", "b">>

CasesObjects ==
  {cs \in SeqsUpTo([key : CaseKeys, value : LinkOrLinks], Cardinality(CaseKeys)) :
     \A i, j \in 1..Len(cs) : i < j =>
        \E m, n \in 1..Len(CaseKeyOrder) :
           m < n /\ CaseKeyOrder[m] = cs[i].key /\ CaseKeyOrder[n] = cs[j].key}

NoOpts == [cases |-> <<>>]

EmptyCasesMsg == <<"switchLink: ", "cases object must have at least one entry">>

\* switchLink without the guard on caseKeys: every cases object is accepted.
switchLinkUnguarded(opts) ==
  /\ swCtor = "unbuilt"
  /\ epCtor = "unbuilt"
  /\ ~probe.done
  /\ swCtor' = "ok"
  /\ swThrown' = <<>>
  /\ swOpts' = opts
  /\ UNCHANGED <<swInst, swInitLog, swCalls, epVars, probe>>

\* switchLink(opts) up to the return of the link: the guard on caseKeys.
switchLink(opts) ==
  /\ swCtor = "unbuilt"
  /\ epCtor = "unbuilt"
  /\ ~probe.done
  /\ LET caseKeys == ObjectKeys(opts.cases)
     IN  IF Len(caseKeys) = 0
         THEN /\ swCtor' = "threw"
              /\ swThrown' = EmptyCasesMsg
         ELSE /\ swCtor' = "ok"
              /\ swThrown' = <<>>
  /\ swOpts' = opts
  /\ UNCHANGED <<swInst, swInitLog, swCalls, epVars, probe>>

\* link(runtime) for the link at place idx of the case key, in instance inst.
InitLink(link, runtime, inst, key, idx) ==
  [link |-> link, runtime |-> runtime, inst |-> inst, key |-> key, idx |-> idx]

\* A map that initializes the first link of a list only.
InitLinksFirstOnly(links, runtime, inst, key) ==
  [idx \in 1..(IF Len(links) = 0 THEN 0 ELSE 1) |-> InitLink(links[idx], runtime, inst, key, idx)]

\* links.map((link) => link(runtime))
\* A map that hands the initialized links back in reverse order.
InitLinksReversed(links, runtime, inst, key) ==
  [idx \in 1..Len(links) |-> InitLink(links[Len(links) + 1 - idx], runtime, inst, key, idx)]

InitLinks(links, runtime, inst, key) ==
  [idx \in 1..Len(links) |-> InitLink(links[idx], runtime, inst, key, idx)]

\* for (const key of caseKeys) { ... initializedChains.set(key, initializedLinks) }
\* from the n-th key on; chains is the Map so far, log the link(runtime) calls.
RECURSIVE InitCases(_, _, _, _, _)
InitCases(cases, n, runtime, inst, acc) ==
  IF n > Len(cases) THEN acc
  ELSE LET key              == ObjectKeys(cases)[n]
           linksOrLink      == cases[n].value
           links            == asArray(linksOrLink)
           initializedLinks == InitLinks(links, runtime, inst, key)
       IN  InitCases(cases, n + 1, runtime, inst,
                     [chains |-> MapSet(acc.chains, key, initializedLinks),
                      log    |-> acc.log \o initializedLinks])

\* A hand-over that initializes the cases the first time only and hands the
\* chains of the first hand-over out again after that.
switchLinkRuntimeOnce(runtime) ==
  /\ swCtor = "ok"
  /\ Len(swInst) < MaxInst
  /\ runtime = RuntimeOrder[Len(swInst) + 1]
  /\ LET inst == Len(swInst) + 1
         done == IF inst = 1
                 THEN InitCases(swOpts.cases, 1, runtime, inst, [chains |-> <<>>, log |-> <<>>])
                 ELSE [chains |-> swInst[1].initializedChains, log |-> <<>>]
     IN  /\ swInst' = Append(swInst, [runtime |-> runtime, initializedChains |-> done.chains])
         /\ swInitLog' = swInitLog \o done.log
  /\ UNCHANGED <<swCtor, swOpts, swThrown, swCalls, epVars, probe>>

\* (runtime) => { ... return (props) => ... }: the eager initialization.
switchLinkRuntime(runtime) ==
  /\ swCtor = "ok"
  /\ Len(swInst) < MaxInst
  /\ runtime = RuntimeOrder[Len(swInst) + 1]
  /\ LET inst == Len(swInst) + 1
         done == InitCases(swOpts.cases, 1, runtime, inst, [chains |-> <<>>, log |-> <<>>])
     IN  /\ swInst' = Append(swInst, [runtime |-> runtime, initializedChains |-> done.chains])
         /\ swInitLog' = swInitLog \o done.log
  /\ UNCHANGED <<swCtor, swOpts, swThrown, swCalls, epVars, probe>>

NoCall(inst, op) ==
  [inst |-> inst, op |-> op, phase |-> "created", selectorContext |-> <<>>,
   selectedKey |-> "none", links |-> <<>>, handled |-> <<>>, live |-> FALSE,
   out |-> <<>>, seen |-> <<>>, cleaned |-> <<>>, cancelled |-> FALSE,
   torn |-> FALSE, late |-> FALSE, stream |-> 0]

\* The instances of a router are interchangeable (the same opts, a runtime
\* each): they take their first operation in the order of their creation.
InUse(calls, inst) == inst = 1 \/ \E c \in 1..Len(calls) : calls[c].inst = inst - 1

\* A handler that routes at once: the selector is invoked and the chain
\* looked up when the operation is handed over, before anyone subscribes.
switchLinkHandleHot(inst, op) ==
  /\ inst \in 1..Len(swInst)
  /\ InUse(swCalls, inst)
  /\ Len(swCalls) < MaxCalls
  /\ \E key \in CaseKeys :
       swCalls' = Append(swCalls,
         [NoCall(inst, op) EXCEPT
            !.selectorContext = <<[path |-> op.path, type |-> op.type, ctx |-> op.context, op |-> op]>>,
            !.selectedKey = key])
  /\ UNCHANGED <<swCtor, swOpts, swThrown, swInst, swInitLog, epVars, probe>>

\* (props) => observable(...): an operation is handed to instance inst and
\* the result stream is returned, not yet subscribed.
switchLinkHandle(inst, op) ==
  /\ inst \in 1..Len(swInst)
  /\ InUse(swCalls, inst)
  /\ Len(swCalls) < MaxCalls
  /\ swCalls' = Append(swCalls, NoCall(inst, op))
  /\ UNCHANGED <<swCtor, swOpts, swThrown, swInst, swInitLog, epVars, probe>>

\* A body that throws the routing error out of the handler instead of
\* sending it down the call's stream.
swThrowError(call, message) ==
  [call EXCEPT !.phase = "threw"]

\* subscribe() once more on the stream the handler returned for call c: a
\* subscription of its own begins, its body (the one of call c) yet to run.
\* stream names the call whose stream it is.
switchLinkResubscribe(c) ==
  /\ c \in 1..Len(swCalls)
  /\ swCalls[c].stream = 0
  /\ swCalls[c].phase # "created"
  /\ Len(swCalls) < MaxCalls
  /\ swCalls' = Append(swCalls, [NoCall(swCalls[c].inst, swCalls[c].op) EXCEPT !.stream = c])
  /\ UNCHANGED <<swCtor, swOpts, swThrown, swInst, swInitLog, epVars, probe>>

\* A body that hands an operation it cannot route to the forward of the
\* enclosing chain (return next(op)).
swForwardNext(call, message) ==
  [call EXCEPT !.phase = "forwarded"]

\* observer.error(TRPCClientError.from(new Error(message))); return;
\* the error is an event of the call's stream and the body returns.
swObserverError(call, message) ==
  [call EXCEPT !.phase = "rejected", !.seen = Observe(call.seen, ErrorEv(message))]

\* A message that names the unknown key and leaves the valid keys out.
UnknownKeyMsgNoKeys(selectedKey, validKeys) ==
  <<"switchLink: selector returned ", "unknown key \"", selectedKey, "\"", ". ",
    "Valid keys are: ">>

\* `switchLink: selector returned unknown key "${selectedKey}". Valid keys
\* are: ${validKeys}`
UnknownKeyMsg(selectedKey, validKeys) ==
  <<"switchLink: selector returned ", "unknown key \"", selectedKey, "\"", ". ",
    "Valid keys are: ">> \o validKeys

\* A subscribe body that builds the chain of the selected case anew for
\* every operation (const inner = chosen() of the design document).
switchLinkSubscribeFresh(c, key) ==
  /\ c \in 1..Len(swCalls)
  /\ swCalls[c].phase = "created"
  /\ HasKey(swOpts.cases, key)
  /\ LET call  == swCalls[c]
         inst  == swInst[call.inst]
         links == InitLinks(asArray(MapGet(swOpts.cases, key).value), inst.runtime, call.inst, key)
     IN  /\ swInitLog' = swInitLog \o links
         /\ swInst' = [swInst EXCEPT ![call.inst].initializedChains = MapSet(@, key, links)]
         /\ \E run \in createChain(links) :
              swCalls' = [swCalls EXCEPT ![c] =
                [call EXCEPT !.phase = "routed", !.selectedKey = key, !.links = links,
                             !.handled = run.handled, !.live = run.live, !.out = run.out,
                             !.cleaned = Started(run),
                             !.seen = IF Len(run.out) = 0 THEN call.seen
                                      ELSE Observe(call.seen, run.out[1])]]
  /\ UNCHANGED <<swCtor, swOpts, swThrown, epVars, probe>>

\* A body that looks at the operation as well as at the selector's key: a
\* mutation runs on the chain cached under "b" whatever the selector
\* returned, and the selector is not given the operation's context.
switchLinkSubscribeByType(c, key) ==
  /\ c \in 1..Len(swCalls)
  /\ swCalls[c].phase = "created"
  /\ LET call            == swCalls[c]
         op              == call.op
         selectorContext == [path |-> op.path, type |-> op.type, ctx |-> "none", op |-> op]
         chains          == swInst[call.inst].initializedChains
         usedKey         == IF op.type = "mutation" THEN "b" ELSE key
         links           == MapGet(chains, usedKey)
     IN  IF ~links.found
         THEN swCalls' = [swCalls EXCEPT ![c] =
                swObserverError([call EXCEPT !.selectorContext = <<selectorContext>>,
                                             !.selectedKey = key],
                                UnknownKeyMsg(key, Join(ObjectKeys(chains), ", ")))]
         ELSE \E run \in createChain(links.value) :
                  swCalls' = [swCalls EXCEPT ![c] =
                    [call EXCEPT !.phase = "routed",
                                 !.selectorContext = <<selectorContext>>,
                                 !.selectedKey = key,
                                 !.links = links.value,
                                 !.handled = run.handled,
                                 !.live = run.live,
                                 !.out = run.out,
                                 !.cleaned = Started(run),
                                 !.seen = IF Len(run.out) = 0 THEN call.seen
                                          ELSE Observe(call.seen, run.out[1])]]
  /\ UNCHANGED <<swCtor, swOpts, swThrown, swInst, swInitLog, epVars, probe>>

\* The body of observable((observer) => { ... }) for call c, run when the
\* caller subscribes; key is what opts.select(selectorContext) returns.
switchLinkSubscribe(c, key) ==
  /\ c \in 1..Len(swCalls)
  /\ swCalls[c].phase = "created"
  /\ LET call            == swCalls[c]
         op              == call.op
         selectorContext == [path |-> op.path, type |-> op.type, ctx |-> op.context, op |-> op]
         selectedKey     == key
         chains          == swInst[call.inst].initializedChains
         links           == MapGet(chains, selectedKey)
     IN  IF ~links.found
         THEN LET validKeys == Join(ObjectKeys(chains), ", ")
              IN  swCalls' = [swCalls EXCEPT ![c] =
                    swObserverError([call EXCEPT !.selectorContext = <<selectorContext>>,
                                                 !.selectedKey = selectedKey],
                                    UnknownKeyMsg(selectedKey, validKeys))]
         ELSE \E run \in createChain(links.value) :
                  swCalls' = [swCalls EXCEPT ![c] =
                    [call EXCEPT !.phase = "routed",
                                 !.selectorContext = <<selectorContext>>,
                                 !.selectedKey = selectedKey,
                                 !.links = links.value,
                                 !.handled = run.handled,
                                 !.live = run.live,
                                 !.out = run.out,
                                 !.cleaned = Started(run),
                                 !.seen = IF Len(run.out) = 0 THEN call.seen
                                          ELSE Observe(call.seen, run.out[1])]]
  /\ UNCHANGED <<swCtor, swOpts, swThrown, swInst, swInitLog, epVars, probe>>

\* What the terminating link of a call may try to send down its stream next.
LinkEvents(call) ==
  {NextEv(DataOrder[Len(call.out) + 1]), ErrorEv(<<"Link error">>), CompleteEv}

\* An observer that hands on errors and completion and swallows the values.
ForwardTerminalOnly(call, ev) ==
  LET passed == ChainPasses(call) /\ IsTerminal(ev)
  IN  [call EXCEPT !.out = Observe(call.out, ev),
                   !.seen = IF passed THEN Observe(call.seen, ev) ELSE call.seen]

\* An observer that wraps an error of the chain into an error of its own.
ForwardWrapped(call, ev) ==
  LET passed == ChainPasses(call)
      sent   == IF ev.type = "error" THEN ErrorEv(<<"switchLink: ">> \o ev.message) ELSE ev
  IN  [call EXCEPT !.out = Observe(call.out, ev),
                   !.seen = IF passed THEN Observe(call.seen, sent) ELSE call.seen]

\* An observer without the guard of a done stream: what the terminating link
\* sends after the end of the stream reaches the caller too.
ForwardPastEnd(call, ev) ==
  [call EXCEPT !.out  = IF call.torn THEN @ ELSE Append(@, ev),
               !.late = @ \/ call.torn,
               !.seen = IF call.torn THEN @ ELSE Append(@, ev)]

\* createChain({op, links}).subscribe(observer): the terminating link sends
\* ev; the chain's stream passes it unless done, and the router's observer
\* receives what the chain's stream passed.
Forward(call, ev) ==
  LET passed == ChainPasses(call)
      sent   == [call EXCEPT !.out  = IF call.torn THEN @ ELSE Observe(@, ev),
                             !.late = @ \/ call.torn,
                             !.seen = IF passed THEN Observe(@, ev) ELSE @]
  IN  IF passed /\ IsTerminal(ev) THEN Cleanup(sent) ELSE sent

\* A teardown that is not handed to the caller: the subscription of the
\* chain is dropped, and unsubscribing reaches no chain.
UnsubscribeDetached(call) ==
  IF IsDone(call.seen) THEN call ELSE [call EXCEPT !.cancelled = TRUE]

\* A teardown that reports the cancellation to the caller as an error.
UnsubscribeNoisy(call) ==
  IF IsDone(call.seen) THEN call
  ELSE chainUnsubscribe([call EXCEPT !.cancelled = TRUE,
                                     !.seen = Append(@, ErrorEv(<<"AbortError">>))])

\* unsubscribe() on the subscription of a router's result stream.  A stream
\* that is done has unsubscribed itself; otherwise the teardown runs, which
\* is what the body returned: the subscription of the chain.
Unsubscribe(call) ==
  IF IsDone(call.seen) THEN call
  ELSE chainUnsubscribe([call EXCEPT !.cancelled = TRUE])

\* The terminating link of call c sends its next event.
switchLinkEmit(c) ==
  /\ c \in 1..Len(swCalls)
  /\ swCalls[c].phase = "routed"
  /\ swCalls[c].live
  /\ Len(swCalls[c].out) < MaxEmit
  /\ \E ev \in LinkEvents(swCalls[c]) :
       swCalls' = [swCalls EXCEPT ![c] = Forward(swCalls[c], ev)]
  /\ UNCHANGED <<swCtor, swOpts, swThrown, swInst, swInitLog, epVars, probe>>

\* A teardown shared by the operations of one cached chain: unsubscribing
\* from one of them tears every one of them down.
switchLinkUnsubscribeShared(c) ==
  /\ c \in 1..Len(swCalls)
  /\ swCalls[c].phase # "created"
  /\ swCalls' = [d \in 1..Len(swCalls) |->
                   IF /\ swCalls[d].phase = "routed"
                      /\ swCalls[d].inst = swCalls[c].inst
                      /\ swCalls[d].selectedKey = swCalls[c].selectedKey
                   THEN Unsubscribe(swCalls[d])
                   ELSE swCalls[d]]
  /\ UNCHANGED <<swCtor, swOpts, swThrown, swInst, swInitLog, epVars, probe>>

\* The caller of call c unsubscribes from its result stream.
switchLinkUnsubscribe(c) ==
  /\ c \in 1..Len(swCalls)
  /\ swCalls[c].phase # "created"
  /\ swCalls' = [swCalls EXCEPT ![c] = Unsubscribe(swCalls[c])]
  /\ UNCHANGED <<swCtor, swOpts, swThrown, swInst, swInitLog, epVars, probe>>

\* The operations handed to the switch router.
SwOps == {op \in Ops : op.id \in {1, 2}}

SwInit ==
  /\ swCtor = "unbuilt"
  /\ swOpts = NoOpts
  /\ swThrown = <<>>
  /\ swInst = <<>>
  /\ swInitLog = <<>>
  /\ swCalls = <<>>

SwNext ==
  \/ \E cs \in CasesObjects : switchLink([cases |-> cs])
  \/ \E n \in 1..MaxInst : switchLinkRuntime(RuntimeOrder[n])
  \/ \E i \in 1..MaxInst, op \in SwOps : switchLinkHandle(i, op)
  \/ \E c \in 1..MaxCalls, k \in SelectorKeys : switchLinkSubscribe(c, k)
  \/ \E c \in 1..MaxCalls : switchLinkEmit(c)
  \/ \E c \in 1..MaxCalls : switchLinkUnsubscribe(c)

(***************************************************************************)
(* endpointRouterLink                                                      *)
(***************************************************************************)
\* A JavaScript value that may be undefined.
Undefined == [undefined |-> TRUE, value |-> <<>>]

Defined(v) == [undefined |-> FALSE, value |-> v]

\* A fallback that a strict router does not take: in strict mode only an
\* entry of the mapping resolves.
NullishUnlessStrict(lhs, rhs) == IF lhs.undefined /\ ~epOpts.strict THEN rhs ELSE lhs

\* lhs ?? rhs
Nullish(lhs, rhs) == IF lhs.undefined THEN rhs ELSE lhs

\* !value for a value that is undefined, a string or an object.
Not(v) == v.undefined \/ v.value = <<>>

\* The properties every object literal inherits from Object.prototype that
\* a path of Ops can name, with the (function) value the lookup yields.
ObjectPrototype == <<[key |-> <<"valueOf">>, value |-> <<"[Function: valueOf]">>]>>

\* object[key] on an object literal: own entries first, then the prototype.
ObjectGet(entries, k) ==
  IF HasKey(entries, k) THEN Defined(MapGet(entries, k).value)
  ELSE IF HasKey(ObjectPrototype, k) THEN Defined(MapGet(ObjectPrototype, k).value)
  ELSE Undefined

\* String.prototype.split(sep) for a one-piece separator: the list of the
\* runs between the separators.
RECURSIVE Split(_, _)
Split(str, sep) ==
  IF \A i \in 1..Len(str) : str[i] # sep THEN <<str>>
  ELSE LET i == CHOOSE n \in 1..Len(str) :
                  str[n] = sep /\ \A m \in 1..(n - 1) : str[m] # sep
       IN  <<SubSeq(str, 1, i - 1)>> \o Split(SubSeq(str, i + 1, Len(str)), sep)

\* A router name that is the whole path.
RouterNameWholePath(path) == path

\* The path up to its last '.' (the procedure name cut off).
RECURSIVE RouterNameBeforeLastDot(_)
RouterNameBeforeLastDot(path) ==
  IF \A i \in 1..Len(path) : path[i] # "." THEN path
  ELSE IF path[Len(path)] = "." THEN SubSeq(path, 1, Len(path) - 1)
  ELSE RouterNameBeforeLastDot(SubSeq(path, 1, Len(path) - 1))

\* const routerName = op.path.split('.')[0]
RouterNameOf(path) == Split(path, ".")[1]

\* The derivation of the router name on its own, over every path of at
\* most MaxPath pieces.
PathPieces == {"u", "b", "."}

Paths == SeqsUpTo(PathPieces, MaxPath)

NoProbe ==
  [done |-> FALSE, kind |-> "none", path |-> <<>>, routerName |-> <<>>,
   value |-> [isArray |-> TRUE, link |-> "none", items |-> <<>>],
   result |-> <<>>, inits |-> <<>>, runs |-> {}]

RouterNameProbe(path) ==
  /\ ~probe.done
  /\ epCtor = "unbuilt"
  /\ swCtor = "unbuilt"
  /\ probe' = [NoProbe EXCEPT !.done = TRUE, !.kind = "routerName", !.path = path,
                              !.routerName = RouterNameOf(path)]
  /\ UNCHANGED <<swVars, epVars>>

\* What a case or a factory can hand to asArray: the values of LinkOrLinks,
\* and the bare link put into a list of its own.
NormalizerInputs ==
  LinkOrLinks \cup {[isArray |-> TRUE, link |-> "none", items |-> <<BareLink>>]}

\* asArray on its own, over every value of NormalizerInputs, with what a
\* router makes of the result: the initialized links and the runs of their
\* chain.
asArrayProbe(value) ==
  /\ ~probe.done
  /\ epCtor = "unbuilt"
  /\ swCtor = "unbuilt"
  /\ LET result == asArray(value)
         inits  == InitLinks(result, RuntimeOrder[1], 1, "a")
     IN  probe' = [NoProbe EXCEPT !.done = TRUE, !.kind = "asArray", !.value = value,
                                 !.result = result, !.inits = inits,
                                 !.runs = createChain(inits)]
  /\ UNCHANGED <<swVars, epVars>>

RouterNames == {<<"u">>, <<"b">>}

RouterNameOrder == <<<<"u">>, <<"b">>>>

\* Endpoint URLs a mapping can name: the empty string and "/s".
Endpoints == {<<>>, <<"/s">>}

\* opts.defaultEndpoint: left out, or "/t".
DefaultEndpoints == {Undefined, Defined(<<"/t">>)}

\* opts.routerToEndpoint: an object literal of at most one entry per router
\* name, written in the order of RouterNameOrder.
Mappings ==
  {m \in SeqsUpTo([key : RouterNames, value : Endpoints], Cardinality(RouterNames)) :
     \A i, j \in 1..Len(m) : i < j =>
        \E k, n \in 1..Len(RouterNameOrder) :
           k < n /\ RouterNameOrder[k] = m[i].key /\ RouterNameOrder[n] = m[j].key}

EndpointOpts ==
  [routerToEndpoint : Mappings,
   defaultEndpoint  : DefaultEndpoints,
   strict           : BOOLEAN,
   linkFactory      : LinkOrLinks]

NoEndpointOpts ==
  [routerToEndpoint |-> <<>>, defaultEndpoint |-> Undefined, strict |-> FALSE,
   linkFactory |-> [isArray |-> TRUE, link |-> "none", items |-> <<>>]]

\* createLink(endpoint): opts.linkFactory, or the httpBatchLink factory in
\* its place, builds the same link or list of links around every endpoint.
createLink(linkFactory, endpoint) == linkFactory

\* endpointRouterLink(opts): destructures opts and returns the link.
endpointRouterLink(opts) ==
  /\ epCtor = "unbuilt"
  /\ swCtor = "unbuilt"
  /\ ~probe.done
  /\ epCtor' = "ok"
  /\ epOpts' = opts
  /\ UNCHANGED <<epInst, epFactoryLog, epInitLog, epCalls, swVars, probe>>

\* A typed variant that turns the strict flag on.
typedEndpointRouterLinkStrict(opts) ==
  endpointRouterLink([opts EXCEPT !.strict = TRUE])

\* typedEndpointRouterLink(opts): return endpointRouterLink(opts), the opts
\* handed on as they are (the cast is a matter of types).
typedEndpointRouterLink(opts) ==
  /\ endpointRouterLink(opts)

\* A hand-over that builds the chain of the default endpoint at once.
endpointRouterLinkRuntimeEager(runtime) ==
  /\ epCtor = "ok"
  /\ Len(epInst) < MaxInst
  /\ runtime = RuntimeOrder[Len(epInst) + 1]
  /\ LET inst  == Len(epInst) + 1
         links == InitLinks(asArray(createLink(epOpts.linkFactory, <<"/t">>)), runtime, inst, <<"/t">>)
     IN  /\ epInst' = Append(epInst, [runtime |-> runtime,
                                      linkCache |-> <<[key |-> <<"/t">>, value |-> links]>>])
         /\ epFactoryLog' = Append(epFactoryLog, [inst |-> inst, endpoint |-> <<"/t">>])
         /\ epInitLog' = epInitLog \o links
  /\ UNCHANGED <<epCtor, epOpts, epCalls, swVars, probe>>

\* (runtime) => { const linkCache = new Map(); ... }: nothing is built yet.
endpointRouterLinkRuntime(runtime) ==
  /\ epCtor = "ok"
  /\ Len(epInst) < MaxInst
  /\ runtime = RuntimeOrder[Len(epInst) + 1]
  /\ epInst' = Append(epInst, [runtime |-> runtime, linkCache |-> <<>>])
  /\ UNCHANGED <<epCtor, epOpts, epFactoryLog, epInitLog, epCalls, swVars, probe>>

NoEpCall(inst, op) ==
  [inst |-> inst, op |-> op, phase |-> "created", routerName |-> <<>>,
   endpoint |-> Undefined, links |-> <<>>, handled |-> <<>>, live |-> FALSE,
   out |-> <<>>, seen |-> <<>>, cleaned |-> <<>>, cancelled |-> FALSE,
   torn |-> FALSE, late |-> FALSE, stream |-> 0]

\* (props) => observable(...): the result stream is returned, not subscribed.
endpointRouterLinkHandle(inst, op) ==
  /\ inst \in 1..Len(epInst)
  /\ InUse(epCalls, inst)
  /\ Len(epCalls) < MaxCalls
  /\ epCalls' = Append(epCalls, NoEpCall(inst, op))
  /\ UNCHANGED <<epCtor, epOpts, epInst, epFactoryLog, epInitLog, swVars, probe>>

\* subscribe() once more on the stream the handler returned for call c.
endpointRouterLinkResubscribe(c) ==
  /\ c \in 1..Len(epCalls)
  /\ epCalls[c].stream = 0
  /\ epCalls[c].phase # "created"
  /\ Len(epCalls) < MaxCalls
  /\ epCalls' = Append(epCalls, [NoEpCall(epCalls[c].inst, epCalls[c].op) EXCEPT !.stream = c])
  /\ UNCHANGED <<epCtor, epOpts, epInst, epFactoryLog, epInitLog, swVars, probe>>

\* A getInitializedLinks that builds the chain of an endpoint anew for every
\* operation and stores the last one.
getInitializedLinksUncached(cache, endpoint, linkFactory, runtime, inst) ==
  LET initializedLinks == InitLinks(asArray(createLink(linkFactory, endpoint)), runtime, inst, endpoint)
  IN  [links    |-> initializedLinks,
       cache    |-> MapSet(cache, endpoint, initializedLinks),
       created  |-> <<[inst |-> inst, endpoint |-> endpoint]>>,
       inits    |-> initializedLinks]

\* getInitializedLinks(endpoint) on the linkCache of instance inst.
getInitializedLinks(cache, endpoint, linkFactory, runtime, inst) ==
  LET cached == MapGet(cache, endpoint)
  IN  IF ~cached.found
      THEN LET linksOrLink      == createLink(linkFactory, endpoint)
               links            == asArray(linksOrLink)
               initializedLinks == InitLinks(links, runtime, inst, endpoint)
           IN  [links    |-> initializedLinks,
                cache    |-> MapSet(cache, endpoint, initializedLinks),
                created  |-> <<[inst |-> inst, endpoint |-> endpoint]>>,
                inits    |-> initializedLinks]
      ELSE [links |-> cached.value, cache |-> cache, created |-> <<>>, inits |-> <<>>]

\* A getInitializedLinks that stores the chain link by link while it builds
\* it: what was initialized before the throw stays in the cache.
getInitializedLinksThrowsStored(cache, endpoint, linkFactory, runtime, inst, stage) ==
  LET links == InitLinks(asArray(createLink(linkFactory, endpoint)), runtime, inst, endpoint)
      made  == IF stage = 0 THEN <<>> ELSE SubSeq(links, 1, stage)
      kept  == IF stage = 0 THEN <<>> ELSE SubSeq(links, 1, stage - 1)
  IN  [cache   |-> MapSet(cache, endpoint, kept),
       created |-> <<[inst |-> inst, endpoint |-> endpoint]>>,
       inits   |-> made]

\* getInitializedLinks(endpoint) on a cache without the endpoint, when the
\* build throws: createLink(endpoint) throws (stage 0), or it returns and
\* link(runtime) of the stage-th link throws.  The exception leaves
\* getInitializedLinks before linkCache.set is reached.
getInitializedLinksThrows(cache, endpoint, linkFactory, runtime, inst, stage) ==
  LET links == InitLinks(asArray(createLink(linkFactory, endpoint)), runtime, inst, endpoint)
      made  == IF stage = 0 THEN <<>> ELSE SubSeq(links, 1, stage)
  IN  [cache   |-> cache,
       created |-> <<[inst |-> inst, endpoint |-> endpoint]>>,
       inits   |-> made]

\* A strict message that lists the mapping keys as they are joined, an empty
\* mapping giving the empty string.
NoEndpointMsgBlank(strict, routerName, availableMappings) ==
  IF strict
  THEN <<"endpointRouterLink: ", "no endpoint mapping for router \"">> \o routerName
         \o <<"\" ", "and ", "no defaultEndpoint provided", ". ", "Available mappings: ">>
         \o availableMappings
  ELSE <<"endpointRouterLink: ", "no endpoint for router \"">> \o routerName
         \o <<"\"", ". Either add it to routerToEndpoint or provide a defaultEndpoint.">>

\* The strict and the non-strict errorMessage of an unresolved endpoint.
NoEndpointMsg(strict, routerName, availableMappings) ==
  IF strict
  THEN <<"endpointRouterLink: ", "no endpoint mapping for router \"">> \o routerName
         \o <<"\" ", "and ", "no defaultEndpoint provided", ". ", "Available mappings: ">>
         \o (IF availableMappings = <<>> THEN <<"(none)">> ELSE availableMappings)
  ELSE <<"endpointRouterLink: ", "no endpoint for router \"">> \o routerName
         \o <<"\"", ". Either add it to routerToEndpoint or provide a defaultEndpoint.">>

\* A body that sends the error and a completion after it, past the guard of
\* the stream.
epObserverErrorThenComplete(call, errorMessage) ==
  [call EXCEPT !.phase = "rejected",
               !.seen = call.seen \o <<ErrorEv(errorMessage), CompleteEv>>]

\* observer.error(TRPCClientError.from(new Error(errorMessage))); return;
epObserverError(call, errorMessage) ==
  [call EXCEPT !.phase = "rejected", !.seen = Observe(call.seen, ErrorEv(errorMessage))]

\* Array.prototype.join of a list of strings of several pieces.
RECURSIVE JoinStrings(_, _)
JoinStrings(strs, sep) ==
  IF Len(strs) = 0 THEN <<>>
  ELSE IF Len(strs) = 1 THEN strs[1]
  ELSE strs[1] \o <<sep>> \o JoinStrings(Tail(strs), sep)

\* The body of observable((observer) => { ... }) for call c, run when the
\* caller subscribes.
endpointRouterLinkSubscribe(c) ==
  /\ c \in 1..Len(epCalls)
  /\ epCalls[c].phase = "created"
  /\ LET call       == epCalls[c]
         op         == call.op
         routerName == RouterNameOf(op.path)
         endpoint   == Nullish(ObjectGet(epOpts.routerToEndpoint, routerName), epOpts.defaultEndpoint)
     IN  IF Not(endpoint)
         THEN LET availableMappings == JoinStrings(ObjectKeys(epOpts.routerToEndpoint), ", ")
                  errorMessage      == NoEndpointMsg(epOpts.strict, routerName, availableMappings)
              IN  /\ epCalls' = [epCalls EXCEPT ![c] =
                        epObserverError([call EXCEPT !.routerName = routerName,
                                                     !.endpoint = endpoint],
                                        errorMessage)]
                  /\ UNCHANGED <<epInst, epFactoryLog, epInitLog>>
         ELSE   LET got == getInitializedLinks(epInst[call.inst].linkCache, endpoint.value,
                                               epOpts.linkFactory, epInst[call.inst].runtime, call.inst)
                IN  /\ epInst' = [epInst EXCEPT ![call.inst].linkCache = got.cache]
                    /\ epFactoryLog' = epFactoryLog \o got.created
                    /\ epInitLog' = epInitLog \o got.inits
                    /\ \E run \in createChain(got.links) :
                         epCalls' = [epCalls EXCEPT ![c] =
                           [call EXCEPT !.phase = "routed",
                                        !.routerName = routerName,
                                        !.endpoint = endpoint,
                                        !.links = got.links,
                                        !.handled = run.handled,
                                        !.live = run.live,
                                        !.out = run.out,
                                        !.cleaned = Started(run),
                                        !.seen = IF Len(run.out) = 0 THEN call.seen
                                                 ELSE Observe(call.seen, run.out[1])]]
  /\ UNCHANGED <<epCtor, epOpts, swVars, probe>>

\* The body of observable((observer) => { ... }) for call c when the build
\* of the chain throws at stage: the exception leaves the body, and the
\* caller gets no stream event.
endpointRouterLinkSubscribeThrows(c, stage) ==
  /\ c \in 1..Len(epCalls)
  /\ epCalls[c].phase = "created"
  /\ LET call       == epCalls[c]
         op         == call.op
         routerName == RouterNameOf(op.path)
         endpoint   == Nullish(ObjectGet(epOpts.routerToEndpoint, routerName), epOpts.defaultEndpoint)
     IN  /\ ~Not(endpoint)
         /\ ~MapGet(epInst[call.inst].linkCache, endpoint.value).found
         /\ stage \in 0..Len(asArray(createLink(epOpts.linkFactory, endpoint.value)))
         /\ LET got == getInitializedLinksThrows(epInst[call.inst].linkCache, endpoint.value,
                                                epOpts.linkFactory, epInst[call.inst].runtime,
                                                call.inst, stage)
            IN  /\ epInst' = [epInst EXCEPT ![call.inst].linkCache = got.cache]
                /\ epFactoryLog' = epFactoryLog \o got.created
                /\ epInitLog' = epInitLog \o got.inits
                /\ epCalls' = [epCalls EXCEPT ![c] =
                      [call EXCEPT !.phase = "failed",
                                   !.routerName = routerName,
                                   !.endpoint = endpoint]]
  /\ UNCHANGED <<epCtor, epOpts, swVars, probe>>

\* The terminating link of call c sends its next event.
endpointRouterLinkEmit(c) ==
  /\ c \in 1..Len(epCalls)
  /\ epCalls[c].phase = "routed"
  /\ epCalls[c].live
  /\ Len(epCalls[c].out) < MaxEmit
  /\ \E ev \in LinkEvents(epCalls[c]) :
       epCalls' = [epCalls EXCEPT ![c] = Forward(epCalls[c], ev)]
  /\ UNCHANGED <<epCtor, epOpts, epInst, epFactoryLog, epInitLog, swVars, probe>>

\* The caller of call c unsubscribes from its result stream.
endpointRouterLinkUnsubscribe(c) ==
  /\ c \in 1..Len(epCalls)
  /\ epCalls[c].phase # "created"
  /\ epCalls' = [epCalls EXCEPT ![c] = Unsubscribe(epCalls[c])]
  /\ UNCHANGED <<epCtor, epOpts, epInst, epFactoryLog, epInitLog, swVars, probe>>

\* The operations handed to the endpoint router whose streams are driven:
\* one of the router name "b" and one of the router name "u".
EpOps == {op \in Ops : op.id \in {2, 3}}

EpInit ==
  /\ epCtor = "unbuilt"
  /\ epOpts = NoEndpointOpts
  /\ epInst = <<>>
  /\ epFactoryLog = <<>>
  /\ epInitLog = <<>>
  /\ epCalls = <<>>

EpNext ==
  \/ \E opts \in EndpointOpts : endpointRouterLink(opts)
  \/ \E opts \in EndpointOpts : typedEndpointRouterLink(opts)
  \/ \E n \in 1..MaxInst : endpointRouterLinkRuntime(RuntimeOrder[n])
  \/ \E i \in 1..MaxInst, op \in EpOps : endpointRouterLinkHandle(i, op)
  \/ \E c \in 1..MaxCalls : endpointRouterLinkSubscribe(c)
  \/ \E c \in 1..MaxCalls : endpointRouterLinkEmit(c)
  \/ \E c \in 1..MaxCalls : endpointRouterLinkUnsubscribe(c)
  \/ \E path \in Paths : RouterNameProbe(path)
  \/ \E value \in NormalizerInputs : asArrayProbe(value)

(***************************************************************************)
(* The model follows one router: the two routers share no state, and a     *)
(* run builds either a switchLink or an endpointRouterLink (or derives the *)
(* router name of one path).                                               *)
(***************************************************************************)
Init == SwInit /\ EpInit /\ probe = NoProbe

Next == SwNext \/ EpNext

Spec == Init /\ [][Next]_vars

\* The switch router alone, and the endpoint router alone.
SpecSwitch == Init /\ [][SwNext]_vars

SpecEndpoint == Init /\ [][EpNext]_vars

\* The endpoint router with a factory and links that may throw while a chain
\* is built.  In the other specifications every factory call and every
\* link(runtime) returns.
EpNextThrowing ==
  \/ \E opts \in EndpointOpts : endpointRouterLink(opts)
  \/ \E n \in 1..MaxInst : endpointRouterLinkRuntime(RuntimeOrder[n])
  \/ \E i \in 1..MaxInst, op \in EpOps : endpointRouterLinkHandle(i, op)
  \/ \E c \in 1..MaxCalls : endpointRouterLinkSubscribe(c)
  \/ \E c \in 1..MaxCalls, stage \in 0..MaxChain : endpointRouterLinkSubscribeThrows(c, stage)

SpecThrowing == Init /\ [][EpNextThrowing]_vars

\* The routing of the endpoint router, up to the subscription that resolves
\* the endpoint and builds or reads the chain; the streams are not driven.
\* The operations share the leading segment "u" and differ in type, context,
\* identifier and the rest of the path, with "b" and the name "valueOf" of
\* Object.prototype beside them.
RoutingOps == {op \in Ops : op.id \in {1, 2, 3, 5, 6}}

EpNextRouting ==
  \/ \E opts \in EndpointOpts : endpointRouterLink(opts)
  \/ \E opts \in EndpointOpts : typedEndpointRouterLink(opts)
  \/ \E n \in 1..MaxInst : endpointRouterLinkRuntime(RuntimeOrder[n])
  \/ \E i \in 1..MaxInst, op \in RoutingOps : endpointRouterLinkHandle(i, op)
  \/ \E c \in 1..MaxCalls : endpointRouterLinkSubscribe(c)
  \/ \E path \in Paths : RouterNameProbe(path)
  \/ \E value \in NormalizerInputs : asArrayProbe(value)

SpecRouting == Init /\ [][EpNextRouting]_vars

\* Both routers with callers that subscribe to a returned stream more than
\* once.  In the other specifications every stream is subscribed at most
\* once.
NextCold ==
  \/ \E cs \in CasesObjects : switchLink([cases |-> cs])
  \/ \E n \in 1..MaxInst : switchLinkRuntime(RuntimeOrder[n])
  \/ \E i \in 1..MaxInst, op \in SwOps : switchLinkHandle(i, op)
  \/ \E c \in 1..MaxCalls, k \in SelectorKeys : switchLinkSubscribe(c, k)
  \/ \E c \in 1..MaxCalls : switchLinkResubscribe(c)
  \/ \E opts \in EndpointOpts : endpointRouterLink(opts)
  \/ \E n \in 1..MaxInst : endpointRouterLinkRuntime(RuntimeOrder[n])
  \/ \E i \in 1..MaxInst, op \in EpOps : endpointRouterLinkHandle(i, op)
  \/ \E c \in 1..MaxCalls : endpointRouterLinkSubscribe(c)
  \/ \E c \in 1..MaxCalls : endpointRouterLinkResubscribe(c)

SpecCold == Init /\ [][NextCold]_vars

(***************************************************************************)
(* Properties                                                              *)
(***************************************************************************)
\* The links a cases object configures under its n-th key, in list order.
ConfiguredLinks(cases, n) ==
  IF cases[n].value.isArray THEN cases[n].value.items ELSE <<cases[n].value.link>>

\* The places in swInitLog of the calls link(runtime) that instance inst
\* made for the idx-th link of case key.
InitPlaces(inst, key, idx) ==
  {p \in 1..Len(swInitLog) :
     swInitLog[p].inst = inst /\ swInitLog[p].key = key /\ swInitLog[p].idx = idx}

\* C1: switchLink(opts) throws, with a message containing "cases object
\* must have at least one entry", exactly when opts.cases has no entry; a
\* throwing switchLink returns no link, so nothing is ever initialized; with
\* one entry or more it returns the link and throws nothing.
C1_EmptyCasesThrow ==
  swCtor # "unbuilt" =>
    IF Len(swOpts.cases) = 0
    THEN /\ swCtor = "threw"
         /\ Contains(swThrown, <<"cases object must have at least one entry">>)
         /\ swInst = <<>>
         /\ swInitLog = <<>>
    ELSE /\ swCtor = "ok"
         /\ swThrown = <<>>

C1_Witness == swCtor = "threw" /\ Len(swOpts.cases) = 0

\* C2: every instance of the switch router (one per hand-over of a runtime)
\* has initialized every link of every case exactly once, with the runtime
\* it was handed, the links of a list in list order and nothing else; this
\* holds from the hand-over on, so before any operation reaches the
\* instance and whatever keys the selector returns.
C2_EagerTotalInit ==
  /\ \A i \in 1..Len(swInst) :
       /\ \A n \in 1..Len(swOpts.cases) : \A idx \in 1..Len(ConfiguredLinks(swOpts.cases, n)) :
            LET places == InitPlaces(i, swOpts.cases[n].key, idx)
            IN  /\ Cardinality(places) = 1
                /\ \A p \in places :
                     /\ swInitLog[p].link = ConfiguredLinks(swOpts.cases, n)[idx]
                     /\ swInitLog[p].runtime = swInst[i].runtime
                     /\ \A q \in 1..Len(swInitLog) :
                          ( /\ swInitLog[q].inst = i
                            /\ swInitLog[q].key = swOpts.cases[n].key
                            /\ swInitLog[q].idx < idx ) => q < p
       /\ \A p \in 1..Len(swInitLog) :
            swInitLog[p].inst = i =>
              \E n \in 1..Len(swOpts.cases) :
                /\ swInitLog[p].key = swOpts.cases[n].key
                /\ swInitLog[p].idx \in 1..Len(ConfiguredLinks(swOpts.cases, n))
  /\ \A p \in 1..Len(swInitLog) : swInitLog[p].inst \in 1..Len(swInst)
  /\ \A c \in 1..Len(swCalls) : swCalls[c].inst \in 1..Len(swInst)

\* An instance over a bare case and a two-link case has routed an operation
\* to the first; the second was never selected.
C2_Witness ==
  /\ Len(swInst) >= 1
  /\ Len(swOpts.cases) = 2
  /\ ~swOpts.cases[1].value.isArray
  /\ Len(swOpts.cases[2].value.items) = 2
  /\ Len(swCalls) = 1
  /\ swCalls[1].phase = "routed"
  /\ swCalls[1].selectedKey = swOpts.cases[1].key

\* The chain cache of an instance right after its initialization: one entry
\* per case key, holding the initialized links of the case in list order.
CacheAsInitialized(i) ==
  /\ ObjectKeys(swInst[i].initializedChains) = ObjectKeys(swOpts.cases)
  /\ \A n \in 1..Len(swOpts.cases) :
       LET chain == swInst[i].initializedChains[n].value
       IN  /\ Len(chain) = Len(ConfiguredLinks(swOpts.cases, n))
           /\ \A idx \in 1..Len(chain) :
                /\ chain[idx].inst = i
                /\ chain[idx].key = swOpts.cases[n].key
                /\ chain[idx].idx = idx
                /\ Cardinality(InitPlaces(i, swOpts.cases[n].key, idx)) = 1

\* C3: handling operations never initializes a link and never touches a
\* chain cache: in every state each instance's cache holds, under exactly
\* the case keys, the lists built at its initialization, every case link
\* has been initialized exactly once per instance, and a step that hands
\* over, routes, rejects or streams an operation leaves swInst and
\* swInitLog as they were.
C3_NoReinit ==
  /\ [](\A i \in 1..Len(swInst) : CacheAsInitialized(i))
  /\ [][swCalls' # swCalls => (swInst' = swInst /\ swInitLog' = swInitLog)]_vars
  /\ [][\A i \in 1..Len(swInst) : swInst'[i] = swInst[i]]_vars

\* Two operations went through one instance: one was routed and its chain
\* sent a value, the other was rejected.
C3_Witness ==
  /\ Len(swCalls) = 2
  /\ swCalls[1].inst = swCalls[2].inst
  /\ swCalls[1].phase = "routed"
  /\ Len(swCalls[1].seen) > 0
  /\ swCalls[2].phase = "rejected"

\* The calls of the switch router whose observable body has run.
SwSubscribed == {c \in 1..Len(swCalls) : swCalls[c].phase # "created"}

\* The calls of the endpoint router whose observable body has run.
EpSubscribed == {c \in 1..Len(epCalls) : epCalls[c].phase # "created"}

\* C4: every operation whose selector output is a key of cases is routed
\* to the chain cached under that key: the handler of the chain's first
\* link is invoked exactly once with the operation, and every link that
\* handles the operation belongs to the selected case of the instance.
C4_SelectedChainHandles ==
  \A c \in SwSubscribed :
    LET call == swCalls[c]
    IN  HasKey(swOpts.cases, call.selectedKey) =>
          /\ call.phase = "routed"
          /\ call.links = MapGet(swInst[call.inst].initializedChains, call.selectedKey).value
          /\ Len(call.links) >= 1
          /\ Cardinality({p \in 1..Len(call.handled) : call.handled[p] = call.links[1]}) = 1
          /\ \A p \in 1..Len(call.handled) :
               /\ call.handled[p].key = call.selectedKey
               /\ call.handled[p].inst = call.inst

\* What a caller may observe of a stream: values, then at most one terminal
\* event, which is the last event.
WellFormedStream(evs) ==
  \A p \in 1..Len(evs) : IsTerminal(evs[p]) => p = Len(evs)

\* The k-th value of a stream is the k-th value its source produced.
ValuesInOrder(evs) ==
  \A p \in 1..Len(evs) : evs[p].type = "next" => evs[p].data = DataOrder[p]

\* C5: for both routers, what the caller of a routed operation has observed
\* is exactly what the resolved chain has produced so far: the same events
\* in the same order, the values in the order of their production, and an
\* error or the completion only as the last event, after every value.
C5_ForwardedUnchanged ==
  /\ \A c \in SwSubscribed :
       swCalls[c].phase = "routed" =>
         /\ swCalls[c].seen = swCalls[c].out
         /\ WellFormedStream(swCalls[c].seen)
         /\ ValuesInOrder(swCalls[c].seen)
  /\ \A c \in EpSubscribed :
       epCalls[c].phase = "routed" =>
         /\ epCalls[c].seen = epCalls[c].out
         /\ WellFormedStream(epCalls[c].seen)
         /\ ValuesInOrder(epCalls[c].seen)

\* An operation of the endpoint router went through a chain of two links
\* that produced a value and completed.
C5_Witness ==
  \E c \in EpSubscribed :
    /\ epCalls[c].phase = "routed"
    /\ Len(epCalls[c].handled) = 2
    /\ epCalls[c].seen = <<NextEv(DataOrder[1]), CompleteEv>>

\* C6: an operation whose selector output is no key of cases gets exactly
\* one event, an error whose message holds `unknown key "<key>"` and
\* `Valid keys are: ` followed by the case keys joined by ", "; it gets no
\* value, and no link of any case handles it.
C6_UnknownKeyError ==
  \A c \in SwSubscribed :
    LET call == swCalls[c]
    IN  ~HasKey(swOpts.cases, call.selectedKey) =>
          /\ call.phase = "rejected"
          /\ Len(call.seen) = 1
          /\ call.seen[1].type = "error"
          /\ Contains(call.seen[1].message, <<"unknown key \"", call.selectedKey, "\"">>)
          /\ Contains(call.seen[1].message,
                      <<"Valid keys are: ">> \o Join(ObjectKeys(swOpts.cases), ", "))
          /\ call.handled = <<>>
          /\ call.out = <<>>

\* Over the cases a and b the selector returned "zz".
C6_Witness ==
  \E c \in SwSubscribed :
    /\ Len(swOpts.cases) = 2
    /\ swCalls[c].selectedKey = "zz"
    /\ swCalls[c].phase = "rejected"

\* A step of the switch router that rejects call c.
SwRejects(c) ==
  /\ c \in 1..Len(swCalls)
  /\ swCalls[c].phase = "created"
  /\ swCalls'[c].phase \in {"rejected", "threw"}

\* A step of the endpoint router that rejects call c.
EpRejects(c) ==
  /\ c \in 1..Len(epCalls)
  /\ epCalls[c].phase = "created"
  /\ epCalls'[c].phase \in {"rejected", "threw"}

IsBeforeFirstDot(path, name) ==
  /\ \A i \in 1..Len(name) : name[i] # "."
  /\ \/ path = name
     \/ /\ Len(path) > Len(name)
        /\ SubSeq(path, 1, Len(name)) = name
        /\ path[Len(name) + 1] = "."

\* C8: the router name the endpoint router derives from a path is the part
\* of the path before its first '.', and the whole path when it has no '.':
\* for every operation handled, for every path of at most MaxPath pieces,
\* and "u.p.s.g" routes by "u".
C8_RouterNameBeforeFirstDot ==
  /\ probe.done => IsBeforeFirstDot(probe.path, probe.routerName)
  /\ \A c \in EpSubscribed :
       /\ IsBeforeFirstDot(epCalls[c].op.path, epCalls[c].routerName)
       /\ epCalls[c].op.path = <<"u", ".", "p", ".", "s", ".", "g">> =>
            epCalls[c].routerName = <<"u">>

\* The operation of path "u.p.s.g" was handled.
C8_Witness ==
  \E c \in EpSubscribed :
    /\ epCalls[c].op.path = <<"u", ".", "p", ".", "s", ".", "g">>
    /\ epCalls[c].routerName = <<"u">>

\* Call c ran on the chain of endpoint: the call is routed, its links are
\* the chain the cache of its instance holds under endpoint, every link was
\* built for endpoint, and the factory was called with endpoint.
RanOnChainOf(c, endpoint) ==
  LET call == epCalls[c]
  IN  /\ call.phase = "routed"
      /\ call.endpoint = Defined(endpoint)
      /\ HasKey(epInst[call.inst].linkCache, endpoint)
      /\ call.links = MapGet(epInst[call.inst].linkCache, endpoint).value
      /\ \A p \in 1..Len(call.links) : call.links[p].key = endpoint
      /\ \E p \in 1..Len(epFactoryLog) :
           epFactoryLog[p] = [inst |-> call.inst, endpoint |-> endpoint]
      /\ \A p \in 1..Len(epFactoryLog) :
           epFactoryLog[p].inst = call.inst =>
             \E d \in EpSubscribed : epCalls[d].endpoint = Defined(epFactoryLog[p].endpoint)

\* C9: an operation whose router name has an entry in the mapping runs on
\* the chain of that entry's endpoint, whatever the default; an operation
\* whose router name has no entry runs on the chain of the default endpoint
\* when one is configured; the factory is called with that endpoint.
C9_MappingThenDefault ==
  \A c \in EpSubscribed :
    LET call    == epCalls[c]
        mapping == epOpts.routerToEndpoint
        name    == RouterNameOf(call.op.path)
    IN  /\ HasKey(mapping, name) => RanOnChainOf(c, MapGet(mapping, name).value)
        /\ (~HasKey(mapping, name) /\ ~epOpts.defaultEndpoint.undefined) =>
              RanOnChainOf(c, epOpts.defaultEndpoint.value)

\* The no-endpoint error of the endpoint router, in either wording.
IsNoEndpointError(call) ==
  /\ call.phase = "rejected"
  /\ Len(call.seen) = 1
  /\ call.seen[1].type = "error"
  /\ \/ Contains(call.seen[1].message, <<"no endpoint mapping for router \"">>)
     \/ Contains(call.seen[1].message, <<"no endpoint for router \"">>)

\* C10: an operation gets the no-endpoint error exactly when the mapping
\* has no entry for its router name and no default endpoint is configured;
\* every other operation is executed on a chain.
C10_ErrorIffUnresolved ==
  \A c \in EpSubscribed :
    LET call    == epCalls[c]
        mapping == epOpts.routerToEndpoint
        name    == RouterNameOf(call.op.path)
    IN  IF ~HasKey(mapping, name) /\ epOpts.defaultEndpoint.undefined
        THEN IsNoEndpointError(call)
        ELSE call.phase = "routed"

\* The endpoint the router resolves for a path: mapping[routerName] ??
\* defaultEndpoint, looked up as JavaScript looks it up.
ResolvedEndpoint(path) ==
  Nullish(ObjectGet(epOpts.routerToEndpoint, RouterNameOf(path)), epOpts.defaultEndpoint)

\* The text after "Available mappings: ": the mapping keys joined by ", ",
\* or "(none)" for the empty mapping.
ListedMappings ==
  IF Len(epOpts.routerToEndpoint) = 0 THEN <<"(none)">>
  ELSE JoinStrings(ObjectKeys(epOpts.routerToEndpoint), ", ")

\* whole ends with part.
EndsWith(whole, part) ==
  /\ Len(part) <= Len(whole)
  /\ SubSeq(whole, Len(whole) - Len(part) + 1, Len(whole)) = part

FactoryPlaces(inst, endpoint) ==
  {p \in 1..Len(epFactoryLog) :
     epFactoryLog[p].inst = inst /\ epFactoryLog[p].endpoint = endpoint}

\* The places in epInitLog of the calls link(runtime) that instance inst
\* made for the idx-th link of the chain of endpoint.
EpInitPlaces(inst, endpoint, idx) ==
  {p \in 1..Len(epInitLog) :
     epInitLog[p].inst = inst /\ epInitLog[p].key = endpoint /\ epInitLog[p].idx = idx}

\* C12: in every instance of the endpoint router the factory has been
\* called exactly once for each endpoint some operation was routed to, each
\* link of that endpoint's chain has been initialized exactly once, with
\* the runtime of the instance, and every operation routed to the endpoint,
\* under whatever router name, runs on that one chain.
C12_OnceFactoryPerEndpoint ==
  \A c \in EpSubscribed :
    LET call == epCalls[c]
    IN  call.phase = "routed" =>
          /\ Cardinality(FactoryPlaces(call.inst, call.endpoint.value)) = 1
          /\ Len(call.links) = Len(asArray(epOpts.linkFactory))
          /\ \A idx \in 1..Len(call.links) :
               /\ Cardinality(EpInitPlaces(call.inst, call.endpoint.value, idx)) = 1
               /\ \A p \in EpInitPlaces(call.inst, call.endpoint.value, idx) :
                    /\ epInitLog[p] = call.links[idx]
                    /\ epInitLog[p].runtime = epInst[call.inst].runtime
          /\ \A d \in EpSubscribed :
               ( /\ epCalls[d].phase = "routed"
                 /\ epCalls[d].inst = call.inst
                 /\ epCalls[d].endpoint = call.endpoint ) => epCalls[d].links = call.links

\* Two operations of different router names, both mapped to "/s", went
\* through one instance.
C12_Witness ==
  /\ Len(epCalls) = 2
  /\ epCalls[1].inst = epCalls[2].inst
  /\ epCalls[1].phase = "routed"
  /\ epCalls[2].phase = "routed"
  /\ epCalls[1].routerName # epCalls[2].routerName
  /\ epCalls[1].endpoint = Defined(<<"/s">>)
  /\ epCalls[2].endpoint = Defined(<<"/s">>)
  /\ Len(epCalls[1].links) = 2

\* The calls of instance inst that were routed to endpoint.
RoutedTo(inst, endpoint) ==
  {c \in EpSubscribed :
     /\ epCalls[c].phase = "routed"
     /\ epCalls[c].inst = inst
     /\ epCalls[c].endpoint = Defined(endpoint)}

\* C13: the endpoint router builds chains lazily, one endpoint at a time:
\* building the router and handing it a runtime calls the factory and
\* initializes no link; the factory is called for an endpoint in the step
\* that handles the first operation routed to it in that instance, and
\* every factory call and every cache entry is for an endpoint some
\* operation of the instance was routed to.
C13_LazyPerEndpoint ==
  /\ [](\A p \in 1..Len(epFactoryLog) :
          RoutedTo(epFactoryLog[p].inst, epFactoryLog[p].endpoint) # {})
  /\ [](\A i \in 1..Len(epInst) : \A n \in 1..Len(epInst[i].linkCache) :
          RoutedTo(i, epInst[i].linkCache[n].key) # {})
  /\ [](\A p \in 1..Len(epInitLog) :
          RoutedTo(epInitLog[p].inst, epInitLog[p].key) # {})
  /\ [][(epCtor' # epCtor \/ Len(epInst') # Len(epInst) \/ Len(epCalls') # Len(epCalls)) =>
          (epFactoryLog' = epFactoryLog /\ epInitLog' = epInitLog)]_vars
  /\ [][epFactoryLog' # epFactoryLog =>
          \E c \in 1..Len(epCalls) :
            /\ epCalls[c].phase = "created"
            /\ epCalls'[c].phase = "routed"
            /\ RoutedTo(epCalls[c].inst, epCalls'[c].endpoint.value) = {}
            /\ epFactoryLog' = Append(epFactoryLog,
                 [inst |-> epCalls[c].inst, endpoint |-> epCalls'[c].endpoint.value])]_vars

\* A router with two mapping entries and a default has two instances and an
\* operation waiting, and has called the factory for one endpoint only.
C13_Witness ==
  /\ Len(epOpts.routerToEndpoint) = 2
  /\ ~epOpts.defaultEndpoint.undefined
  /\ Len(epInst) = 2
  /\ Len(epCalls) = 2
  /\ epCalls[1].phase = "routed"
  /\ epCalls[2].phase = "created"
  /\ Len(epFactoryLog) = 1

\* A call ran its link list in sequence: the list is the configured one in
\* its order, the handlers invoked are an unbroken run of it from the first
\* link on, each invoked through the forward of the one before; the last
\* one invoked terminated the chain, or every link forwarded and the last
\* forward found no link.
RanInSequence(call, configured) ==
  /\ Len(call.links) = Len(configured)
  /\ \A p \in 1..Len(call.links) :
       /\ call.links[p].link = configured[p]
       /\ call.links[p].idx = p
  /\ Len(call.handled) <= Len(call.links)
  /\ \A p \in 1..Len(call.handled) : call.handled[p] = call.links[p]
  /\ IF call.live
     THEN Len(call.handled) >= 1
     ELSE /\ call.handled = call.links
          /\ call.out = <<ErrorEv(NoLinkMsg)>>
  /\ \A p \in 1..Len(call.seen) :
       call.seen[p].type = "next" => (p <= Len(call.out) /\ call.out[p] = call.seen[p])

\* C14: a link list is executed in sequence for a case of the switch router
\* and for a factory result of the endpoint router alike: the handler of
\* the first link is invoked first, the handler of the next link only by
\* the forward of the link before it, and the values the caller gets are
\* those of the link that terminated the chain.
C14_SequentialExecution ==
  /\ \A c \in SwSubscribed :
       swCalls[c].phase = "routed" =>
         RanInSequence(swCalls[c], asArray(MapGet(swOpts.cases, swCalls[c].selectedKey).value))
  /\ \A c \in EpSubscribed :
       epCalls[c].phase = "routed" =>
         RanInSequence(epCalls[c], asArray(epOpts.linkFactory))

\* A case of two links: the first forwarded, the second terminated the
\* chain and produced a value.
C14_Witness ==
  \E c \in SwSubscribed :
    /\ swCalls[c].phase = "routed"
    /\ Len(swCalls[c].links) = 2
    /\ Len(swCalls[c].handled) = 2
    /\ swCalls[c].live
    /\ swCalls[c].seen = <<NextEv(DataOrder[1])>>

\* The caller of call got the first error of the chain as it is, as the
\* last event it got.
FirstErrorVerbatim(call) ==
  /\ \A p \in 1..Len(call.out) :
       call.out[p].type = "error" =>
         /\ Len(call.seen) = p
         /\ call.seen[p] = call.out[p]
  /\ Cardinality({p \in 1..Len(call.seen) : call.seen[p].type = "error"}) <= 1

\* The stream of a call that has got an error stays as it is.
SilentAfterError(before, after) ==
  (Len(before.seen) > 0 /\ before.seen[Len(before.seen)].type = "error") =>
     after.seen = before.seen

\* C15: the first error of the resolved chain reaches the caller as that
\* very error (same message, not wrapped or replaced), once, and the caller
\* gets nothing after it, whatever the chain goes on to send.
C15_FirstErrorVerbatim ==
  /\ [](\A c \in SwSubscribed : swCalls[c].phase = "routed" => FirstErrorVerbatim(swCalls[c]))
  /\ [](\A c \in EpSubscribed : epCalls[c].phase = "routed" => FirstErrorVerbatim(epCalls[c]))
  /\ [][\A c \in 1..Len(swCalls) : SilentAfterError(swCalls[c], swCalls'[c])]_vars
  /\ [][\A c \in 1..Len(epCalls) : SilentAfterError(epCalls[c], epCalls'[c])]_vars

\* The chain of a call of the switch router produced a value and then an
\* error.
C15_Witness ==
  \E c \in SwSubscribed :
    /\ swCalls[c].phase = "routed"
    /\ swCalls[c].seen = <<NextEv(DataOrder[1]), ErrorEv(<<"Link error">>)>>

\* The cleanups of a routed call: one count per element that started; a
\* call cancelled before its stream was done has had each of them invoked
\* exactly once, and a call neither cancelled nor done has had none.
CleanedOnCancel(call) ==
  /\ Len(call.cleaned) = Len(call.handled)
  /\ call.cancelled => \A p \in 1..Len(call.handled) : call.cleaned[p] = 1
  /\ (~call.cancelled /\ ~IsDone(call.out)) =>
        \A p \in 1..Len(call.handled) : call.cleaned[p] = 0

\* The cleanup counts of a cancelled call stay as they are.
CleanedOnce(before, after) ==
  before.cancelled => after.cleaned = before.cleaned

\* C16: when the caller unsubscribes from the result stream of a routed
\* operation before the stream is done, the cleanup of every chain element
\* that started is invoked exactly once, by that step and never again, and
\* no cleanup is invoked before the cancellation; for both routers.
C16_CleanupOnCancel ==
  /\ [](\A c \in SwSubscribed : swCalls[c].phase = "routed" => CleanedOnCancel(swCalls[c]))
  /\ [](\A c \in EpSubscribed : epCalls[c].phase = "routed" => CleanedOnCancel(epCalls[c]))
  /\ [][\A c \in 1..Len(swCalls) : CleanedOnce(swCalls[c], swCalls'[c])]_vars
  /\ [][\A c \in 1..Len(epCalls) : CleanedOnce(epCalls[c], epCalls'[c])]_vars

\* A chain of two started elements was cancelled after its first value.
C16_Witness ==
  \E c \in SwSubscribed :
    /\ swCalls[c].cancelled
    /\ Len(swCalls[c].handled) = 2
    /\ swCalls[c].cleaned = <<1, 1>>
    /\ swCalls[c].seen = <<NextEv(DataOrder[1])>>

\* A step leaves the events of a call as they are if the call is cancelled
\* before or by the step.
SilentOnceCancelled(before, after) ==
  (before.cancelled \/ after.cancelled) => after.seen = before.seen

\* C17: from the cancellation on the caller gets no event on the stream:
\* the cancelling step delivers none (no error, no completion), and no
\* later step does, whatever the chain's elements try to send.
C17_SilentAfterCancel ==
  /\ [](\A c \in SwSubscribed : swCalls[c].cancelled => ~IsDone(swCalls[c].seen))
  /\ [](\A c \in EpSubscribed : epCalls[c].cancelled => ~IsDone(epCalls[c].seen))
  /\ [][\A c \in 1..Len(swCalls) : SilentOnceCancelled(swCalls[c], swCalls'[c])]_vars
  /\ [][\A c \in 1..Len(epCalls) : SilentOnceCancelled(epCalls[c], epCalls'[c])]_vars

\* A call of the endpoint router was cancelled after its first value, and
\* its terminating link tried to send an event after that.
C17_Witness ==
  \E c \in EpSubscribed :
    /\ epCalls[c].cancelled
    /\ epCalls[c].late
    /\ epCalls[c].seen = <<NextEv(DataOrder[1])>>

\* C18: asArray returns a list for every input and keeps the order: the
\* bare link L gives [L], and a list gives its own elements in their order;
\* so L and [L] are normalized to the same list, are initialized link for
\* link alike and run as the same chain, and a router holds a chain of one
\* link for a bare case or a bare factory result.
C18_NormalizerKeepsOrder ==
  /\ probe.kind = "asArray" =>
       /\ DOMAIN probe.result = 1..Len(probe.result)
       /\ IF probe.value.isArray
          THEN /\ Len(probe.result) = Len(probe.value.items)
               /\ \A i \in 1..Len(probe.value.items) : probe.result[i] = probe.value.items[i]
          ELSE /\ probe.result = <<probe.value.link>>
               /\ probe.inits = InitLinks(<<probe.value.link>>, RuntimeOrder[1], 1, "a")
               /\ probe.runs = createChain(InitLinks(<<probe.value.link>>, RuntimeOrder[1], 1, "a"))
       /\ Len(probe.inits) = Len(probe.result)
       /\ \A i \in 1..Len(probe.inits) : probe.inits[i].link = probe.result[i]
  /\ \A c \in EpSubscribed :
       (epCalls[c].phase = "routed" /\ ~epOpts.linkFactory.isArray) =>
          /\ Len(epCalls[c].links) = 1
          /\ epCalls[c].links[1].link = epOpts.linkFactory.link

\* asArray was applied to the list [L] of the bare link L.
C18_Witness ==
  /\ probe.kind = "asArray"
  /\ probe.value.isArray
  /\ probe.result = <<BareLink>>
  /\ Cardinality(probe.runs) = 2

\* C19: typedEndpointRouterLink(opts) is endpointRouterLink(opts): a step
\* builds a router through the one exactly when it builds it through the
\* other on the same opts, so the link either returns, and with it every
\* factory call, cache and event that follows, is the same.
C19_TypedDelegates ==
  [][epCtor' # epCtor =>
       \A opts \in EndpointOpts :
         typedEndpointRouterLink(opts) <=> endpointRouterLink(opts)]_vars

\* The router built from opts with a mapping, a default and the strict flag
\* off has routed one operation and rejected none.
C19_Witness ==
  /\ epCtor = "ok"
  /\ ~epOpts.strict
  /\ Len(epOpts.routerToEndpoint) = 1
  /\ ~epOpts.defaultEndpoint.undefined
  /\ Len(epCalls) = 1
  /\ epCalls[1].phase = "routed"
  /\ epCalls[1].endpoint = epOpts.defaultEndpoint
  /\ Len(epFactoryLog) = 1

\* The calls a router rejected with a routing error.
SwRejected == {c \in SwSubscribed : swCalls[c].phase = "rejected"}

EpRejected == {c \in EpSubscribed : epCalls[c].phase = "rejected"}

\* C20 as stated: a rejected call gets the routing error and, after it, the
\* completion.
C20_ErrorThenComplete ==
  /\ \A c \in SwRejected :
       /\ Len(swCalls[c].seen) = 2
       /\ swCalls[c].seen[1].type = "error"
       /\ swCalls[c].seen[2] = CompleteEv
  /\ \A c \in EpRejected :
       /\ Len(epCalls[c].seen) = 2
       /\ epCalls[c].seen[1].type = "error"
       /\ epCalls[c].seen[2] = CompleteEv

\* The events of a rejected call stay as they are.
RejectedStays(before, after) ==
  before.phase = "rejected" => after.seen = before.seen

\* C20 (amended): a rejected call gets the routing error as its one and
\* last event: the error ends the stream, and no completion is delivered
\* with it or after it.
C20_ErrorEndsStream ==
  /\ [](\A c \in SwRejected :
          /\ IsDone(swCalls[c].seen)
          /\ swCalls[c].seen[Len(swCalls[c].seen)].type = "error"
          /\ \A p \in 1..Len(swCalls[c].seen) : swCalls[c].seen[p] # CompleteEv)
  /\ [](\A c \in EpRejected :
          /\ IsDone(epCalls[c].seen)
          /\ epCalls[c].seen[Len(epCalls[c].seen)].type = "error"
          /\ \A p \in 1..Len(epCalls[c].seen) : epCalls[c].seen[p] # CompleteEv)
  /\ [][\A c \in 1..Len(swCalls) : RejectedStays(swCalls[c], swCalls'[c])]_vars
  /\ [][\A c \in 1..Len(epCalls) : RejectedStays(epCalls[c], epCalls'[c])]_vars

\* The first operation was rejected; the second ran to completion after it.
C20_Witness ==
  /\ Len(swCalls) = 2
  /\ swCalls[1].phase = "rejected"
  /\ swCalls[1].seen[Len(swCalls[1].seen)].type = "error"
  /\ swCalls[2].phase = "routed"
  /\ swCalls[2].seen = <<NextEv(DataOrder[1]), CompleteEv>>

\* The completions a caller got.
Completions(evs) == {p \in 1..Len(evs) : evs[p] = CompleteEv}

EndSignalledOnce(call) ==
  ~call.cancelled =>
     /\ call.seen = call.out
     /\ Cardinality(Completions(call.seen)) <= 1
     /\ \A p \in Completions(call.seen) :
          /\ p = Len(call.seen)
          /\ \A q \in 1..(p - 1) : call.seen[q].type = "next"
     /\ (\E p \in 1..Len(call.seen) : call.seen[p].type = "error") =>
          Completions(call.seen) = {}
     /\ IsDone(call.out) => IsDone(call.seen)

\* The events of a stream that has ended stay as they are.
SilentAfterEnd(before, after) ==
  IsDone(before.seen) => after.seen = before.seen

RouteOf(mapping, defaultEndpoint, path) ==
  LET own == ObjectGet(mapping, RouterNameOf(path))
  IN  IF own.undefined THEN defaultEndpoint ELSE own

\* No chain can be built for a route: it is undefined or the empty string.
Unroutable(route) == route.undefined \/ route.value = <<>>

C23_SelectorContextAndKey ==
  \A c \in SwSubscribed :
    LET call   == swCalls[c]
        op     == call.op
        chains == swInst[call.inst].initializedChains
    IN  /\ call.selectorContext =
             <<[path |-> op.path, type |-> op.type, ctx |-> op.context, op |-> op]>>
        /\ IF HasKey(chains, call.selectedKey)
           THEN /\ call.phase = "routed"
                /\ call.links = MapGet(chains, call.selectedKey).value
           ELSE /\ call.phase = "rejected"
                /\ call.links = <<>>
        /\ \A d \in SwSubscribed :
             (swCalls[d].inst = call.inst /\ swCalls[d].selectedKey = call.selectedKey) =>
                (swCalls[d].phase = call.phase /\ swCalls[d].links = call.links)

\* Over the cases a and b, a query of path "u.g" in the context "anon" and
\* a mutation of path "b" in the context "admin" both got the key "a" and
\* ran on the chain of a.
C23_Witness ==
  /\ Len(swOpts.cases) = 2
  /\ Len(swCalls) = 2
  /\ swCalls[1].inst = swCalls[2].inst
  /\ swCalls[1].op.type = "query"
  /\ swCalls[2].op.type = "mutation"
  /\ swCalls[2].op.path = <<"b">>
  /\ swCalls[1].selectedKey = "a"
  /\ swCalls[2].selectedKey = "a"
  /\ swCalls[1].phase = "routed"
  /\ swCalls[2].phase = "routed"
  /\ swCalls[2].selectorContext[1].ctx = "admin"

\* C24: as the design document has it, an operation for which no endpoint
\* resolves makes a strict router throw, and makes a non-strict router hand
\* the operation to the next link of the enclosing chain.
C24_StrictThrowsElseNext ==
  \A c \in EpSubscribed :
    Not(ResolvedEndpoint(epCalls[c].op.path)) =>
      epCalls[c].phase = IF epOpts.strict THEN "threw" ELSE "forwarded"

\* The calls link(runtime) made for the idx-th link of case key, by
\* whatever hand-over.
AllInitPlaces(key, idx) ==
  {p \in 1..Len(swInitLog) : swInitLog[p].key = key /\ swInitLog[p].idx = idx}

\* The number of links the cases configure.
RECURSIVE CountLinks(_, _)
CountLinks(cases, n) ==
  IF n > Len(cases) THEN 0
  ELSE Len(ConfiguredLinks(cases, n)) + CountLinks(cases, n + 1)

\* C25 as stated: over the whole life of a switch router, however many
\* times it is handed a runtime, each case link is initialized exactly once.
C25_OnceForAllHandOvers ==
  Len(swInst) >= 1 =>
    \A n \in 1..Len(swOpts.cases) : \A idx \in 1..Len(ConfiguredLinks(swOpts.cases, n)) :
      Cardinality(AllInitPlaces(swOpts.cases[n].key, idx)) = 1

\* C25 (amended): initialization happens exactly once per hand-over of a
\* runtime: every hand-over initializes each case link exactly once, with
\* the runtime handed over, so a router handed n runtimes has initialized
\* each case link n times; nothing but a hand-over initializes a link, and
\* what a hand-over built is never built again or changed: its handler only
\* serves calls from then on.
C25_OncePerHandOver ==
  /\ [](\A n \in 1..Len(swOpts.cases) : \A idx \in 1..Len(ConfiguredLinks(swOpts.cases, n)) :
          /\ Cardinality(AllInitPlaces(swOpts.cases[n].key, idx)) = Len(swInst)
          /\ \A i \in 1..Len(swInst) :
               /\ Cardinality(InitPlaces(i, swOpts.cases[n].key, idx)) = 1
               /\ \A p \in InitPlaces(i, swOpts.cases[n].key, idx) :
                    swInitLog[p].runtime = swInst[i].runtime)
  /\ [](Len(swInitLog) = Len(swInst) * CountLinks(swOpts.cases, 1))
  /\ [](\A i, j \in 1..Len(swInst) : i # j => swInst[i].runtime # swInst[j].runtime)
  /\ [][swInitLog' # swInitLog => (Len(swInst') = Len(swInst) + 1 /\ swCalls' = swCalls)]_vars
  /\ [][\A i \in 1..Len(swInst) : swInst'[i] = swInst[i]]_vars

\* A router with the one case a of two links was handed two runtimes, has
\* initialized four links, and its first handler has served an operation
\* after the second hand-over.
C25_Witness ==
  /\ Len(swOpts.cases) = 1
  /\ Len(swOpts.cases[1].value.items) = 2
  /\ Len(swInst) = 2
  /\ Len(swInitLog) = 4
  /\ Len(swCalls) = 1
  /\ swCalls[1].inst = 1
  /\ swCalls[1].phase = "routed"

\* C26: every link list a router hands to the chain executor has at least
\* one element, for every configuration the routers accept.
C26_NoEmptyChain ==
  /\ \A c \in SwSubscribed : swCalls[c].phase = "routed" => Len(swCalls[c].links) >= 1
  /\ \A c \in EpSubscribed : epCalls[c].phase = "routed" => Len(epCalls[c].links) >= 1

\* The endpoint strings a configuration names: the values of the mapping
\* and the default endpoint.
ConfiguredEndpoints ==
  {epOpts.routerToEndpoint[n].value : n \in 1..Len(epOpts.routerToEndpoint)}
    \cup (IF epOpts.defaultEndpoint.undefined THEN {} ELSE {epOpts.defaultEndpoint.value})

\* C27: the chain cache of every instance of the endpoint router holds at
\* most one chain per endpoint, every key of it is an endpoint value of the
\* mapping or the default endpoint, and an entry once inserted is never
\* replaced or removed.
C27_CacheGrowsOverEndpoints ==
  /\ [](\A i \in 1..Len(epInst) :
          LET cache == epInst[i].linkCache
          IN  /\ \A m, n \in 1..Len(cache) : cache[m].key = cache[n].key => m = n
              /\ \A n \in 1..Len(cache) : cache[n].key \in ConfiguredEndpoints)
  /\ [][\A i \in 1..Len(epInst) :
          /\ Len(epInst'[i].linkCache) >= Len(epInst[i].linkCache)
          /\ \A n \in 1..Len(epInst[i].linkCache) :
               epInst'[i].linkCache[n] = epInst[i].linkCache[n]]_vars

\* A step changes at most one of the calls there are, and adds at most one.
OneCallPerStep(before, after) ==
  /\ Len(after) >= Len(before)
  /\ Len(after) <= Len(before) + 1
  /\ \A c, d \in 1..Len(before) :
       (c # d /\ after[c] # before[c]) => after[d] = before[d]
  /\ Len(after) > Len(before) => \A c \in 1..Len(before) : after[c] = before[c]

\* A call whose stream has ended or was cancelled.
Over(call) == call.cancelled \/ IsDone(call.seen)

\* A call whose chain is running and may still send an event.
Open(call) ==
  /\ call.phase = "routed"
  /\ call.live
  /\ ~Over(call)
  /\ Len(call.out) < MaxEmit

\* C28: the operations in flight on one cached chain are independent
\* streams: a step that cancels, ends or feeds one operation changes no
\* other operation (no cleanup count, no event, no field of it), and an
\* operation whose chain is running can be sent a value and can complete
\* whatever has become of another operation on the same chain.
C28_IndependentStreams ==
  /\ [][OneCallPerStep(swCalls, swCalls')]_vars
  /\ [][OneCallPerStep(epCalls, epCalls')]_vars
  /\ [](\A c, d \in 1..Len(swCalls) :
          ( /\ c # d
            /\ swCalls[c].inst = swCalls[d].inst
            /\ swCalls[c].links = swCalls[d].links
            /\ Over(swCalls[c])
            /\ Open(swCalls[d]) ) =>
             /\ ENABLED (switchLinkEmit(d) /\ swCalls'[d].seen = Append(swCalls[d].seen, CompleteEv))
             /\ ENABLED (switchLinkEmit(d) /\ Len(swCalls'[d].seen) = Len(swCalls[d].seen) + 1
                                           /\ swCalls'[d].seen[Len(swCalls'[d].seen)].type = "next"))
  /\ [](\A c, d \in 1..Len(epCalls) :
          ( /\ c # d
            /\ epCalls[c].inst = epCalls[d].inst
            /\ epCalls[c].links = epCalls[d].links
            /\ Over(epCalls[c])
            /\ Open(epCalls[d]) ) =>
             /\ ENABLED (endpointRouterLinkEmit(d) /\ epCalls'[d].seen = Append(epCalls[d].seen, CompleteEv))
             /\ ENABLED (endpointRouterLinkEmit(d) /\ Len(epCalls'[d].seen) = Len(epCalls[d].seen) + 1
                                                   /\ epCalls'[d].seen[Len(epCalls'[d].seen)].type = "next"))

\* Two operations ran on the chain cached under one key: the first was
\* cancelled before it got an event, and the second got a value and the
\* completion.
C28_Witness ==
  /\ Len(swCalls) = 2
  /\ swCalls[1].inst = swCalls[2].inst
  /\ swCalls[1].selectedKey = swCalls[2].selectedKey
  /\ swCalls[1].phase = "routed"
  /\ swCalls[1].cancelled
  /\ swCalls[1].seen = <<>>
  /\ Len(swCalls[1].handled) >= 1
  /\ ~swCalls[2].cancelled
  /\ swCalls[2].seen = <<NextEv(DataOrder[1]), CompleteEv>>

\* The chain the router builds for an endpoint in instance i, in full.
FullChain(i, endpoint) ==
  InitLinks(asArray(createLink(epOpts.linkFactory, endpoint)), epInst[i].runtime, i, endpoint)

\* C29: when the factory or the initialization of a link throws while the
\* chain of endpoint E is built, the step stores nothing: no cache of any
\* instance changes, so E has no entry and the entries of other endpoints
\* are as they were; a cache never holds anything but chains built in
\* full, for endpoints an operation was routed to; and the next operation
\* routed to E calls the factory again and initializes every link of the
\* chain again, from the first one on.
C29_FailedBuildCachesNothing ==
  /\ [](\A i \in 1..Len(epInst) : \A n \in 1..Len(epInst[i].linkCache) :
          LET entry == epInst[i].linkCache[n]
          IN  /\ entry.value = FullChain(i, entry.key)
              /\ RoutedTo(i, entry.key) # {})
  /\ [][\A c \in 1..Len(epCalls) :
          (epCalls[c].phase = "created" /\ epCalls'[c].phase = "failed") =>
             /\ epInst' = epInst
             /\ epCalls'[c].seen = <<>>
             /\ \A d \in 1..Len(epCalls) : d # c => epCalls'[d] = epCalls[d]]_vars
  /\ [][\A c \in 1..Len(epCalls) :
          ( /\ epCalls[c].phase = "created"
            /\ epCalls'[c].phase = "routed"
            /\ RoutedTo(epCalls[c].inst, epCalls'[c].endpoint.value) = {} ) =>
             LET i == epCalls[c].inst
                 e == epCalls'[c].endpoint.value
             IN  /\ epFactoryLog' = Append(epFactoryLog, [inst |-> i, endpoint |-> e])
                 /\ epInitLog' = epInitLog \o FullChain(i, e)
                 /\ epCalls'[c].links = FullChain(i, e)
                 /\ epInst'[i].linkCache = Append(epInst[i].linkCache, [key |-> e, value |-> FullChain(i, e)])]_vars

\* The build of the chain of "/s" threw in the initialization of the second
\* of two links; the next operation for "/s" called the factory again and
\* initialized both links, and the cache holds the one chain built in full.
C29_Witness ==
  /\ Len(epCalls) = 2
  /\ epCalls[1].inst = epCalls[2].inst
  /\ epCalls[1].phase = "failed"
  /\ epCalls[1].endpoint = Defined(<<"/s">>)
  /\ epCalls[2].phase = "routed"
  /\ epCalls[2].endpoint = Defined(<<"/s">>)
  /\ Len(epCalls[2].links) = 2
  /\ Len(epFactoryLog) = 2
  /\ Len(epInitLog) = 4
  /\ Len(epInst[epCalls[1].inst].linkCache) = 1

\* A call that its router handled itself: it ran on the inner chain, the
\* handlers invoked being links of that chain from the first on, and a
\* chain whose every link forwarded ended with the executor's own error;
\* or it was rejected with the one routing error and no handler ran.
HandledWithin(call, chain) ==
  /\ call.phase \in {"routed", "rejected"}
  /\ call.phase = "routed" =>
       /\ call.links = chain
       /\ Len(call.handled) <= Len(call.links)
       /\ \A p \in 1..Len(call.handled) : call.handled[p] = call.links[p]
       /\ ~call.live => (call.handled = call.links /\ call.seen = <<ErrorEv(NoLinkMsg)>>)
  /\ call.phase = "rejected" =>
       /\ call.handled = <<>>
       /\ call.out = <<>>
       /\ Len(call.seen) = 1
       /\ call.seen[1].type = "error"

NothingRun(call) ==
  /\ call.phase = "created"
  /\ call.links = <<>>
  /\ call.handled = <<>>
  /\ call.out = <<>>
  /\ call.seen = <<>>

\* C31: the result streams of both routers are cold.  The step that hands
\* an operation to a router, and the step that begins a further
\* subscription, change no cache and no factory or initialization log and
\* touch no other call, and leave a record for which nothing has run (no
\* selector invoked, no endpoint resolved, no handler invoked).  The body
\* runs in the step of a subscription and for every subscription of a
\* stream: each one has its selector invocation or endpoint resolution of
\* its own, fetches the chain from the cache, building it when the cache
\* lacks it, and executes it from its first link.
C31_ColdStreams ==
  /\ [](\A c \in 1..Len(swCalls) :
          /\ swCalls[c].phase = "created" =>
               (NothingRun(swCalls[c]) /\ swCalls[c].selectorContext = <<>>
                                      /\ swCalls[c].selectedKey = "none")
          /\ swCalls[c].phase # "created" => Len(swCalls[c].selectorContext) = 1
          /\ swCalls[c].phase = "routed" =>
               /\ swCalls[c].links = MapGet(swInst[swCalls[c].inst].initializedChains,
                                            swCalls[c].selectedKey).value
               /\ \A p \in 1..Len(swCalls[c].handled) : swCalls[c].handled[p] = swCalls[c].links[p]
               /\ Len(swCalls[c].links) > 0 => Len(swCalls[c].handled) > 0)
  /\ [](\A c \in 1..Len(epCalls) :
          /\ epCalls[c].phase = "created" =>
               (NothingRun(epCalls[c]) /\ epCalls[c].routerName = <<>>
                                      /\ epCalls[c].endpoint = Undefined)
          /\ epCalls[c].phase # "created" => epCalls[c].routerName # <<>>
          /\ epCalls[c].phase = "routed" =>
               /\ epCalls[c].links = MapGet(epInst[epCalls[c].inst].linkCache,
                                            epCalls[c].endpoint.value).value
               /\ \A p \in 1..Len(epCalls[c].handled) : epCalls[c].handled[p] = epCalls[c].links[p]
               /\ Len(epCalls[c].links) > 0 => Len(epCalls[c].handled) > 0)
  /\ [][Len(swCalls') # Len(swCalls) =>
          /\ swCalls' = Append(swCalls, swCalls'[Len(swCalls')])
          /\ NothingRun(swCalls'[Len(swCalls')])
          /\ swCalls'[Len(swCalls')].selectorContext = <<>>
          /\ swInst' = swInst
          /\ swInitLog' = swInitLog]_vars
  /\ [][Len(epCalls') # Len(epCalls) =>
          /\ epCalls' = Append(epCalls, epCalls'[Len(epCalls')])
          /\ NothingRun(epCalls'[Len(epCalls')])
          /\ epCalls'[Len(epCalls')].endpoint = Undefined
          /\ epInst' = epInst
          /\ epFactoryLog' = epFactoryLog
          /\ epInitLog' = epInitLog]_vars
  /\ [][\A c \in 1..Len(epCalls) :
          (epCalls[c].phase = "created" /\ epCalls'[c].phase = "routed") =>
             LET cache == epInst[epCalls[c].inst].linkCache
                 e     == epCalls'[c].endpoint.value
             IN  IF HasKey(cache, e)
                 THEN epFactoryLog' = epFactoryLog /\ epInst' = epInst
                 ELSE epFactoryLog' = Append(epFactoryLog, [inst |-> epCalls[c].inst, endpoint |-> e])]_vars
  /\ [][(epFactoryLog' # epFactoryLog \/ epInitLog' # epInitLog \/ epInst' # epInst) =>
          \/ Len(epInst') # Len(epInst)
          \/ \E c \in 1..Len(epCalls) :
               epCalls[c].phase = "created" /\ epCalls'[c].phase # "created"]_vars

\* The stream of one operation of the switch router was subscribed twice:
\* the selector returned "a" for the first subscription and "b" for the
\* second, and each ran on the chain of its key.
C31_Witness ==
  /\ Len(swCalls) = 2
  /\ swCalls[2].stream = 1
  /\ swCalls[2].op = swCalls[1].op
  /\ swCalls[1].phase = "routed"
  /\ swCalls[2].phase = "routed"
  /\ swCalls[1].selectedKey = "a"
  /\ swCalls[2].selectedKey = "b"
  /\ Len(swCalls[1].handled) >= 1
  /\ Len(swCalls[2].handled) >= 1

\* The paths p and q have the same leading segment.
SameLeadingSegment(p, q) ==
  \E name \in {SubSeq(p, 1, k) : k \in 0..Len(p)} :
    IsBeforeFirstDot(p, name) /\ IsBeforeFirstDot(q, name)

\* C32: the endpoint router routes by the leading path segment alone: any
\* two operations it has handled whose paths share that segment resolved
\* the same endpoint and met the same fate, whatever their type, context,
\* identifier and remaining segments and whichever was handled first: both
\* failed with the same routing error, or both ran on the chain of that
\* endpoint, which for two operations of one instance is the one chain its
\* cache holds.
C32_RoutedByNameAlone ==
  \A c, d \in EpSubscribed :
    SameLeadingSegment(epCalls[c].op.path, epCalls[d].op.path) =>
      /\ epCalls[c].routerName = epCalls[d].routerName
      /\ epCalls[c].endpoint = epCalls[d].endpoint
      /\ epCalls[c].phase = epCalls[d].phase
      /\ epCalls[c].phase = "rejected" => epCalls[c].seen = epCalls[d].seen
      /\ epCalls[c].phase = "routed" =>
           /\ \A p \in 1..Len(epCalls[c].links) :
                epCalls[c].links[p].key = epCalls[c].endpoint.value
           /\ Len(epCalls[c].links) = Len(epCalls[d].links)
           /\ epCalls[c].inst = epCalls[d].inst =>
                /\ epCalls[c].links = epCalls[d].links
                /\ epCalls[c].links =
                     MapGet(epInst[epCalls[c].inst].linkCache, epCalls[c].endpoint.value).value

\* One instance over the mapping {u: "/s"} ran the mutation "u" of context
\* "admin" and the query "u.g" of context "anon" on the one chain of "/s".
C32_Witness ==
  /\ Len(epCalls) = 2
  /\ epCalls[1].inst = epCalls[2].inst
  /\ {epCalls[1].op.id, epCalls[2].op.id} = {1, 6}
  /\ epCalls[1].phase = "routed"
  /\ epCalls[2].phase = "routed"
  /\ epCalls[1].endpoint = Defined(<<"/s">>)
  /\ epCalls[1].links = epCalls[2].links
  /\ Len(epCalls[1].links) >= 1
  /\ Len(epFactoryLog) = 1

====
